---- MODULE Spec2Model ----
(***************************************************************************)
(* Model of the /schedule command of the Telegram bot and of its natural   *)
(* language time parser, src/src/bot/handlers/quick_commands.py            *)
(* (_parse_natural_time, lines 259-373; schedule_command, lines 376-486).  *)
(*                                                                         *)
(* Texts are TLA+ strings.  The regular expressions of the parser are      *)
(* modelled by matchers that follow Python's leftmost, greedy,             *)
(* backtracking search.  A date is its proleptic Gregorian ordinal         *)
(* (date.toordinal()); a datetime is a record of date, hour, minute and    *)
(* second (microseconds behave like seconds and are left out).             *)
(***************************************************************************)
EXTENDS Integers, Sequences, FiniteSets, TLC

(***************************************************************************)
(* Characters and strings                                                  *)
(***************************************************************************)

\* Body applied to value, with value computed once (a LET definition is
\* computed again at each of its uses).
Let(value, Body(_)) == CHOOSE result \in {Body(v) : v \in {value}} : TRUE

\* The least element of a non-empty set of integers.
Min(I) == CHOOSE i \in I : \A j \in I : i <= j

\* The i-th character of s, or "" outside s.
Char(s, i) == IF i >= 1 /\ i <= Len(s) THEN SubSeq(s, i, i) ELSE ""

\* \d of the regular expressions.
IsDigit(c) == c \in {"0", "1", "2", "3", "4", "5", "6", "7", "8", "9"}

\* \s of the regular expressions (the arguments are joined with blanks only).
IsSpace(c) == c = " "

\* The literal w occurs in s at position i.
StartsWith(s, i, w) == i >= 1 /\ i + Len(w) - 1 <= Len(s) /\ SubSeq(s, i, i + Len(w) - 1) = w

\* The first position at or after i that holds no whitespace (\s* and \s+).
RECURSIVE SkipSpaces(_, _)
SkipSpaces(s, i) == IF IsSpace(Char(s, i)) THEN SkipSpaces(s, i + 1) ELSE i

\* The number of consecutive digits of s from position i on.
RECURSIVE DigitRun(_, _)
DigitRun(s, i) == IF IsDigit(Char(s, i)) THEN 1 + DigitRun(s, i + 1) ELSE 0

\* The value of one decimal digit.
DigitVal(c) ==
    CASE c = "0" -> 0 [] c = "1" -> 1 [] c = "2" -> 2 [] c = "3" -> 3 [] c = "4" -> 4
      [] c = "5" -> 5 [] c = "6" -> 6 [] c = "7" -> 7 [] c = "8" -> 8 [] c = "9" -> 9

\* int() of the first n characters of a string of decimal digits.
RECURSIVE ParseIntUpTo(_, _)
ParseIntUpTo(s, n) ==
    IF n = 0 THEN 0 ELSE 10 * ParseIntUpTo(s, n - 1) + DigitVal(Char(s, n))

\* int(s) for a string of decimal digits.
ParseInt(s) == ParseIntUpTo(s, Len(s))

\* str.lower() on one character (the upper-case letters a request uses).
LowerChar(c) ==
    CASE c = "A" -> "a" [] c = "B" -> "b" [] c = "C" -> "c" [] c = "D" -> "d"
      [] c = "E" -> "e" [] c = "F" -> "f" [] c = "G" -> "g" [] c = "H" -> "h"
      [] c = "I" -> "i" [] c = "J" -> "j" [] c = "K" -> "k" [] c = "L" -> "l"
      [] c = "M" -> "m" [] c = "N" -> "n" [] c = "O" -> "o" [] c = "P" -> "p"
      [] c = "Q" -> "q" [] c = "R" -> "r" [] c = "S" -> "s" [] c = "T" -> "t"
      [] c = "U" -> "u" [] c = "V" -> "v" [] c = "W" -> "w" [] c = "X" -> "x"
      [] c = "Y" -> "y" [] c = "Z" -> "z" [] OTHER -> c

\* str.lower() of the first n characters.
RECURSIVE LowerUpTo(_, _)
LowerUpTo(s, n) == IF n = 0 THEN "" ELSE LowerUpTo(s, n - 1) \o LowerChar(Char(s, n))

\* str.lower()
Lower(s) == LowerUpTo(s, Len(s))

\* The first position at or after i whose character is not in chars, and the
\* last position at or before i whose character is not in chars.
RECURSIVE SkipChars(_, _, _)
SkipChars(s, chars, i) == IF Char(s, i) \in chars THEN SkipChars(s, chars, i + 1) ELSE i

RECURSIVE SkipCharsBack(_, _, _)
SkipCharsBack(s, chars, i) ==
    IF Char(s, i) \in chars THEN SkipCharsBack(s, chars, i - 1) ELSE i

\* str.strip(chars), chars given as a set of characters.
StripChars(s, chars) == SubSeq(s, SkipChars(s, chars, 1), SkipCharsBack(s, chars, Len(s)))

\* str.strip()
Strip(s) == StripChars(s, {" "})

\* needle in s
Contains(s, needle) == \E i \in 1..Len(s) : StartsWith(s, i, needle)

\* str.title() on a lower-case string: a letter that follows no letter is
\* written in upper case.
UpperChar(c) ==
    CASE c = "a" -> "A" [] c = "b" -> "B" [] c = "c" -> "C" [] c = "d" -> "D"
      [] c = "e" -> "E" [] c = "f" -> "F" [] c = "g" -> "G" [] c = "h" -> "H"
      [] c = "i" -> "I" [] c = "j" -> "J" [] c = "k" -> "K" [] c = "l" -> "L"
      [] c = "m" -> "M" [] c = "n" -> "N" [] c = "o" -> "O" [] c = "p" -> "P"
      [] c = "q" -> "Q" [] c = "r" -> "R" [] c = "s" -> "S" [] c = "t" -> "T"
      [] c = "u" -> "U" [] c = "v" -> "V" [] c = "w" -> "W" [] c = "x" -> "X"
      [] c = "y" -> "Y" [] c = "z" -> "Z" [] OTHER -> c

IsLetter(c) == c # "" /\ (UpperChar(c) # c \/ LowerChar(c) # c)

RECURSIVE TitleCaseFrom(_, _)
TitleCaseFrom(s, i) ==
    IF i > Len(s) THEN ""
    ELSE (IF IsLetter(Char(s, i - 1)) THEN LowerChar(Char(s, i)) ELSE UpperChar(Char(s, i)))
         \o TitleCaseFrom(s, i + 1)

TitleCase(s) == TitleCaseFrom(s, 1)

\* " ".join(words)
RECURSIVE JoinUpTo(_, _)
JoinUpTo(words, n) ==
    IF n = 0 THEN ""
    ELSE IF n = 1 THEN words[1]
    ELSE JoinUpTo(words, n - 1) \o " " \o words[n]

Join(words) == JoinUpTo(words, Len(words))

(***************************************************************************)
(* Regular expressions.  A match is a record: ok, the position after the   *)
(* match, and the captured groups (None is written "").                     *)
(***************************************************************************)

NoMatch == [ok |-> FALSE, end |-> 0, groups |-> <<>>]

\* (am|pm) at position i, "" when absent.
Meridiem(s, i) ==
    IF StartsWith(s, i, "am") THEN "am" ELSE IF StartsWith(s, i, "pm") THEN "pm" ELSE ""

\* r'in\s+(\d+)\s*hours?' anchored at i.
InHoursAt(s, i) ==
    LET b == SkipSpaces(s, i + 2)
        d == DigitRun(s, b)
        c == SkipSpaces(s, b + d)
    IN  IF StartsWith(s, i, "in") /\ b > i + 2 /\ d > 0 /\ StartsWith(s, c, "hour")
        THEN [ok |-> TRUE,
              end |-> IF Char(s, c + 4) = "s" THEN c + 5 ELSE c + 4,
              groups |-> <<SubSeq(s, b, b + d - 1)>>]
        ELSE NoMatch

\* time_patterns[0], r'at\s+(\d{1,2}):?(\d{2})?\s*(am|pm)?', anchored at i.
AtTimeAt(s, i) ==
    LET b  == SkipSpaces(s, i + 2)
        c  == IF IsDigit(Char(s, b + 1)) THEN b + 2 ELSE b + 1
        m  == IF Char(s, c) = ":" THEN c + 1 ELSE c
        e  == IF IsDigit(Char(s, m)) /\ IsDigit(Char(s, m + 1)) THEN m + 2 ELSE m
        f  == SkipSpaces(s, e)
        ap == Meridiem(s, f)
    IN  IF StartsWith(s, i, "at") /\ b > i + 2 /\ IsDigit(Char(s, b))
        THEN [ok |-> TRUE,
              end |-> IF ap # "" THEN f + 2 ELSE f,
              groups |-> <<SubSeq(s, b, c - 1), SubSeq(s, m, e - 1), ap>>]
        ELSE NoMatch

\* time_patterns[1], r'(\d{1,2}):(\d{2})\s*(am|pm)?', anchored at i: two hour
\* digits are tried first, then one.
ColonTimeAt(s, i) ==
    LET Try(n) ==
            LET f  == SkipSpaces(s, i + n + 3)
                ap == Meridiem(s, f)
            IN  IF DigitRun(s, i) >= n /\ Char(s, i + n) = ":"
                   /\ IsDigit(Char(s, i + n + 1)) /\ IsDigit(Char(s, i + n + 2))
                THEN [ok |-> TRUE,
                      end |-> IF ap # "" THEN f + 2 ELSE f,
                      groups |-> <<SubSeq(s, i, i + n - 1),
                                   SubSeq(s, i + n + 1, i + n + 2), ap>>]
                ELSE NoMatch
    IN  IF Try(2).ok THEN Try(2) ELSE Try(1)

\* MeridiemTimeAt with the meridiem optional, r'(\d{1,2})\s*(am|pm)?'.
MeridiemTimeAtOptional(s, i) ==
    LET n  == IF DigitRun(s, i) >= 2 THEN 2 ELSE 1
        f  == SkipSpaces(s, i + n)
        ap == Meridiem(s, f)
    IN  IF DigitRun(s, i) >= 1
        THEN [ok |-> TRUE, end |-> IF ap # "" THEN f + 2 ELSE f,
              groups |-> <<SubSeq(s, i, i + n - 1), IF ap # "" THEN ap ELSE "">>]
        ELSE NoMatch

\* time_patterns[2], r'(\d{1,2})\s*(am|pm)', anchored at i.
MeridiemTimeAt(s, i) ==
    LET Try(n) ==
            LET f  == SkipSpaces(s, i + n)
                ap == Meridiem(s, f)
            IN  IF DigitRun(s, i) >= n /\ ap # ""
                THEN [ok |-> TRUE, end |-> f + 2,
                      groups |-> <<SubSeq(s, i, i + n - 1), ap>>]
                ELSE NoMatch
    IN  IF Try(2).ok THEN Try(2) ELSE Try(1)

\* The alternation (today|tomorrow|monday|...|sunday) of the title clean-up.
DayWords == <<"today", "tomorrow", "monday", "tuesday", "wednesday", "thursday",
              "friday", "saturday", "sunday">>

\* r'(next\s+)?(today|...|sunday)' anchored at i.
DayWordAt(s, i) ==
    LET b == SkipSpaces(s, i + 4)
        j == IF StartsWith(s, i, "next") /\ b > i + 4
                /\ \E k \in 1..Len(DayWords) : StartsWith(s, b, DayWords[k])
             THEN b ELSE i
    IN  Let({k \in 1..Len(DayWords) : StartsWith(s, j, DayWords[k])},
            LAMBDA K :
                IF K = {} THEN NoMatch
                ELSE [ok |-> TRUE, end |-> j + Len(DayWords[Min(K)]),
                      groups |-> <<SubSeq(s, i, j - 1), DayWords[Min(K)]>>])

\* r'at\s+\d{1,2}:?\d{0,2}\s*(am|pm)?' of the title clean-up, anchored at i.
AtPhraseAt(s, i) ==
    LET b  == SkipSpaces(s, i + 2)
        c  == IF IsDigit(Char(s, b + 1)) THEN b + 2 ELSE b + 1
        m  == IF Char(s, c) = ":" THEN c + 1 ELSE c
        r  == DigitRun(s, m)
        e  == m + (IF r > 2 THEN 2 ELSE r)
        f  == SkipSpaces(s, e)
        ap == Meridiem(s, f)
    IN  IF StartsWith(s, i, "at") /\ b > i + 2 /\ IsDigit(Char(s, b))
        THEN [ok |-> TRUE, end |-> IF ap # "" THEN f + 2 ELSE f, groups |-> <<ap>>]
        ELSE NoMatch

\* r'--family' with re.IGNORECASE, anchored at i.
FamilyFlagAt(s, i) ==
    IF i + 7 <= Len(s) /\ Lower(SubSeq(s, i, i + 7)) = "--family"
    THEN [ok |-> TRUE, end |-> i + 8, groups |-> <<>>]
    ELSE NoMatch

\* The pattern named pat anchored at position i of s.
MatchAt(pat, s, i) ==
    CASE pat = "in_hours"  -> InHoursAt(s, i)
      [] pat = "at_time"   -> AtTimeAt(s, i)
      [] pat = "colon"     -> ColonTimeAt(s, i)
      [] pat = "meridiem"  -> MeridiemTimeAt(s, i)
      [] pat = "day_word"  -> DayWordAt(s, i)
      [] pat = "at_phrase" -> AtPhraseAt(s, i)
      [] pat = "family"    -> FamilyFlagAt(s, i)

\* re.search(pat, s) from position from on: the leftmost match.
SearchFrom(pat, s, from) ==
    Let({i \in from..Len(s) : MatchAt(pat, s, i).ok},
        LAMBDA I :
            IF I = {} THEN NoMatch
            ELSE Let(Min(I),
                     LAMBDA i : [ok |-> TRUE, start |-> i, end |-> MatchAt(pat, s, i).end,
                                 groups |-> MatchAt(pat, s, i).groups]))

\* re.search(pat, s)
Search(pat, s) == SearchFrom(pat, s, 1)

\* re.sub(pat, '', s): every non-overlapping match removed, left to right.
RECURSIVE SubFrom(_, _, _)
SubFrom(pat, s, from) ==
    Let(SearchFrom(pat, s, from),
        LAMBDA m : IF ~m.ok THEN SubSeq(s, from, Len(s))
                   ELSE SubSeq(s, from, m.start - 1) \o SubFrom(pat, s, m.end))

Sub(pat, s) == SubFrom(pat, s, 1)

(***************************************************************************)
(* Dates and times                                                         *)
(***************************************************************************)

\* date.max.toordinal(): 31 December 9999, the last date a datetime can hold.
MaxOrdinal == 3652059

\* date.weekday(): Monday is 0, Sunday is 6 (ordinal 1 was a Monday).
Weekday(date) == (date + 6) % 7

\* now + timedelta(hours=hours): the wall clock moves by whole hours, minute
\* and second are kept.
AddHours(dt, hours) ==
    LET total == dt.hour + hours
    IN  [dt EXCEPT !.date = dt.date + (total \div 24), !.hour = total % 24]

\* The addition raises OverflowError('date value out of range') when the sum
\* lies after datetime.max.
AddHoursOverflows(dt, hours) == AddHours(dt, hours).date > MaxOrdinal

(***************************************************************************)
(* _parse_natural_time                                                     *)
(***************************************************************************)

\* Python's None, for an absent title or period.
None == "<None>"

\* "hour is None": no time pattern has matched (a matched hour is >= 0).
NoHour == -1

NoTimeMessage == "Couldn't find a time. Try: 'tomorrow at 2pm' or 'monday 3:30pm'"

\* The return values (target, title) and (None, error_message), and the
\* exception that leaves the function instead of a return value.
Resolved(when, title) == [kind |-> "Resolved", when |-> when, title |-> title]
Failed(reason) == [kind |-> "Failed", reason |-> reason]
Raised(error) == [kind |-> "Raised", error |-> error]

\* title if title else None
OrNone(title) == Let(title, LAMBDA t : IF t = "" THEN None ELSE t)

\* The "in X hours" shortcut: the value returned (or the exception raised) when
\* the pattern matches.  The hours come from the first match, the title is the
\* text with every match removed.
InHoursResult(text, now) ==
    Let(ParseInt(Search("in_hours", text).groups[1]),
        LAMBDA hours :
            IF AddHoursOverflows(now, hours) THEN Raised("OverflowError")
            ELSE Resolved(AddHours(now, hours), OrNone(Let(Sub("in_hours", text), Strip))))

\* time_patterns, in the order the loop tries them.
time_patterns == <<"at_time", "colon", "meridiem">>

\* The body of the loop for a match: hour, minute, period from its groups.
FromGroups(groups) ==
    [hour   |-> ParseInt(groups[1]),
     minute |-> IF Len(groups) = 3
                THEN IF groups[2] # "" THEN ParseInt(groups[2]) ELSE 0
                ELSE 0,
     period |-> IF Len(groups) = 3
                THEN IF groups[3] # "" THEN groups[3] ELSE None
                ELSE IF groups[2] \in {"am", "pm"} THEN groups[2] ELSE None]

\* FindTime trying only the first two patterns.
FindTimeSkipsLast(text) ==
    Let({k \in 1..2 : Search(time_patterns[k], text).ok},
        LAMBDA K :
            IF K = {} THEN [hour |-> NoHour, minute |-> 0, period |-> None]
            ELSE Let(Search(time_patterns[Min(K)], text).groups, FromGroups))

\* FindTime letting the match that starts leftmost in the text decide (the
\* earlier pattern on a tie).
FindTimeLeftmost(text) ==
    Let({k \in 1..Len(time_patterns) : Search(time_patterns[k], text).ok},
        LAMBDA K :
            IF K = {} THEN [hour |-> NoHour, minute |-> 0, period |-> None]
            ELSE Let(Min({Search(time_patterns[k], text).start : k \in K}),
                     LAMBDA first :
                         Let(Search(time_patterns[
                                 Min({k \in K : Search(time_patterns[k], text).start = first})],
                                 text).groups,
                             FromGroups)))

\* The loop over time_patterns: the first pattern that matches anywhere in the
\* text decides; hour stays None when none matches.
FindTime(text) ==
    Let({k \in 1..Len(time_patterns) : Search(time_patterns[k], text).ok},
        LAMBDA K :
            IF K = {} THEN [hour |-> NoHour, minute |-> 0, period |-> None]
            ELSE Let(Search(time_patterns[Min(K)], text).groups, FromGroups))

\* To24h with the "hour < 12" test of the pm branch left out.
To24hAlwaysAdds(hour, period) ==
    IF period = "pm" THEN hour + 12
    ELSE IF period = "am" /\ hour = 12 THEN 0
    ELSE hour

\* Convert to 24h.
To24h(hour, period) ==
    IF period = "pm" /\ hour < 12 THEN hour + 12
    ELSE IF period = "am" /\ hour = 12 THEN 0
    ELSE hour

\* day_map, in its iteration order; day_map[name] is the index minus one.
day_map == <<"monday", "tuesday", "wednesday", "thursday", "friday", "saturday", "sunday">>

\* DaysAhead rolling forward whenever days_ahead <= 0.
DaysAheadAlwaysRolls(weekday, now_weekday, has_next) ==
    LET days_ahead == weekday - now_weekday
    IN  IF days_ahead <= 0 THEN days_ahead + 7 ELSE days_ahead

\* DaysAhead adding a week for "next" whatever the sign.
DaysAheadNextAlwaysAdds(weekday, now_weekday, has_next) ==
    LET days_ahead == weekday - now_weekday
    IN  IF has_next THEN days_ahead + 7
        ELSE IF days_ahead < 0 THEN days_ahead + 7
        ELSE days_ahead

\* DaysAhead with the two additions in sequence instead of if/elif.
DaysAheadAddsTwice(weekday, now_weekday, has_next) ==
    LET days_ahead == weekday - now_weekday
    IN  IF days_ahead <= 0
        THEN days_ahead + (IF has_next THEN 7 ELSE 0) + (IF days_ahead < 0 THEN 7 ELSE 0)
        ELSE days_ahead

\* days_ahead for a weekday of day_map.
DaysAhead(weekday, now_weekday, has_next) ==
    LET days_ahead == weekday - now_weekday
    IN  IF days_ahead <= 0
        THEN IF has_next THEN days_ahead + 7
             ELSE IF days_ahead < 0 THEN days_ahead + 7
             ELSE days_ahead
        ELSE days_ahead

\* TargetDate testing "today" before "tomorrow".
TargetDateTodayFirst(text, now) ==
    IF Contains(text, "today") THEN now.date
    ELSE IF Contains(text, "tomorrow") THEN now.date + 1
    ELSE Let({k \in 1..Len(day_map) : Contains(text, day_map[k])},
             LAMBDA K :
                 IF K = {} THEN now.date
                 ELSE now.date
                      + DaysAhead(Min(K) - 1, Weekday(now.date), Contains(text, "next")))

\* TargetDate letting the weekday named first in the text decide.
TargetDateFirstInText(text, now) ==
    IF Contains(text, "tomorrow") THEN now.date + 1
    ELSE IF Contains(text, "today") THEN now.date
    ELSE Let({k \in 1..Len(day_map) : Contains(text, day_map[k])},
             LAMBDA K :
                 IF K = {} THEN now.date
                 ELSE Let(Min({i \in 1..Len(text) :
                                  \E k \in K : StartsWith(text, i, day_map[k])}), LAMBDA first :
                      Let(Min({k \in K : StartsWith(text, first, day_map[k])}),
                          LAMBDA k :
                              now.date + DaysAhead(k - 1, Weekday(now.date),
                                                   Contains(text, "next")))))

\* Find day reference.
TargetDate(text, now) ==
    IF Contains(text, "tomorrow") THEN now.date + 1
    ELSE IF Contains(text, "today") THEN now.date
    ELSE Let({k \in 1..Len(day_map) : Contains(text, day_map[k])},
             LAMBDA K :
                 IF K = {} THEN now.date
                 ELSE now.date
                      + DaysAhead(Min(K) - 1, Weekday(now.date), Contains(text, "next")))

\* TimeError without the check of the minute.
TimeErrorHourOnly(hour, minute) ==
    IF hour < 0 \/ hour > 23 THEN "hour must be in 0..23" ELSE ""

\* time.replace(hour=, minute=) raises ValueError outside the valid ranges; the
\* hour is checked first.  "" when the time is valid.
TimeError(hour, minute) ==
    IF hour < 0 \/ hour > 23 THEN "hour must be in 0..23"
    ELSE IF minute < 0 \/ minute > 59 THEN "minute must be in 0..59"
    ELSE ""

\* datetime.combine(target_date, time(hour, minute))
Combine(target_date, hour, minute) ==
    [date |-> target_date, hour |-> hour, minute |-> minute, second |-> 0]

\* ExtractTitle without line 370: a bare hour with am/pm stays in the title.
ExtractTitleKeepsMeridiem(text) ==
    Let(Sub("day_word", text), LAMBDA title1 :
    Let(Sub("at_phrase", title1), LAMBDA title2 :
    Let(Sub("colon", title2), LAMBDA title3 :
    StripChars(title3, {" ", ",", "-", ":"}))))

\* Extract title (remove time/day references).
ExtractTitle(text) ==
    Let(Sub("day_word", text), LAMBDA title1 :
    Let(Sub("at_phrase", title1), LAMBDA title2 :
    Let(Sub("colon", title2), LAMBDA title3 :
    Let(Sub("meridiem", title3), LAMBDA title4 :
    StripChars(title4, {" ", ",", "-", ":"})))))

\* strftime: an integer in decimal, zero-padded to width digits.
RECURSIVE Pad(_, _)
Pad(n, width) ==
    IF width <= 1 /\ n < 10 THEN ToString(n)
    ELSE Pad(n \div 10, width - 1) \o ToString(n % 10)

\* Year, month and day of a date ordinal (proleptic Gregorian calendar).
YearMonthDay(ordinal) ==
    LET z   == ordinal + 305
        era == z \div 146097
        doe == z - era * 146097
        yoe == (doe - (doe \div 1460) + (doe \div 36524) - (doe \div 146096)) \div 365
        doy == doe - (365 * yoe + (yoe \div 4) - (yoe \div 100))
        mp  == (5 * doy + 2) \div 153
        m   == IF mp < 10 THEN mp + 3 ELSE mp - 9
    IN  [year  |-> yoe + era * 400 + (IF m <= 2 THEN 1 ELSE 0),
         month |-> m,
         day   |-> doy - ((153 * mp + 2) \div 5) + 1]

\* strftime("%Y-%m-%dT%H:%M:%S")
IsoFormat(dt) ==
    LET ymd == YearMonthDay(dt.date)
    IN  Pad(ymd.year, 4) \o "-" \o Pad(ymd.month, 2) \o "-" \o Pad(ymd.day, 2) \o "T"
        \o Pad(dt.hour, 2) \o ":" \o Pad(dt.minute, 2) \o ":" \o Pad(dt.second, 2)

\* _parse_natural_time as one function of the text and of the clock that
\* datetime.now() reads: the value returned, or the exception raised.
ParseNaturalTime(t, clock) ==
    Let(Let(Lower(t), Strip), LAMBDA lowered :
        IF Search("in_hours", lowered).ok THEN InHoursResult(lowered, clock)
        ELSE Let(FindTime(lowered), LAMBDA found :
             IF found.hour = NoHour THEN Failed(NoTimeMessage)
             ELSE Let(To24h(found.hour, found.period), LAMBDA hour24 :
                  IF TimeError(hour24, found.minute) # ""
                  THEN Failed("Invalid time: " \o TimeError(hour24, found.minute))
                  ELSE Resolved(Combine(TargetDate(lowered, clock), hour24, found.minute),
                                OrNone(ExtractTitle(lowered))))))

(***************************************************************************)
(* The requests the model sends: context.args of /schedule, the clock that *)
(* datetime.now() reads, and what the Cal.com CLI does.                     *)
(***************************************************************************)

\* The largest N of the generated "in N hours" phrases.
MaxInHours == 2

\* The largest number of words after the time expression.
MaxTailWords == 1

NextPart == {<<>>, <<"next">>}

\* No day, one day keyword, or two of them.
DayPart ==
    {<<>>, <<"today">>, <<"Tomorrow">>} \cup {<<day_map[k]>> : k \in 1..Len(day_map)}
    \cup {<<"today", "Tomorrow">>, <<"Tomorrow", "monday">>, <<"today", "friday">>,
          <<"friday", "monday">>}

TimePart ==
    {<<>>, <<"at", "2pm">>, <<"at", "15">>, <<"at", "3">>, <<"at", "25">>, <<"at", "12:30", "AM">>,
     <<"15">>, <<"3">>, <<"3:30pm">>, <<"13:75">>, <<"10am">>, <<"12", "pm">>, <<"24am">>,
     <<"in", "30", "hours">>, <<"in", "99999999", "hours">>,
     <<"in", "2", "hours", "at", "2pm">>, <<"1", "2pm", "am">>,
     <<"3pm", "at", "5">>, <<"9am", "14:00">>, <<"10am", "-,:">>}
    \cup {<<"in", ToString(n), "hours">> : n \in 0..MaxInHours}
    \cup {<<"in", ToString(n) \o "hour">> : n \in 1..1}

TailWords == {"meeting", "--family"}

RECURSIVE SeqsUpTo(_, _)
SeqsUpTo(S, n) ==
    IF n = 0 THEN {<<>>}
    ELSE LET shorter == SeqsUpTo(S, n - 1)
         IN  shorter \cup {Append(q, w) : q \in shorter, w \in S}

TailPart == SeqsUpTo(TailWords, MaxTailWords)

\* context.args: the words of the message after /schedule.
ArgLists ==
    {nx \o dy \o tm \o tl :
        nx \in NextPart, dy \in DayPart, tm \in TimePart, tl \in TailPart}

\* The values datetime.now() returns: the Monday, the Wednesday and the Sunday
\* of the week of 11 March 2024 late in the evening, and the morning of Friday
\* 15 March 2024.  With the seven weekday names of the texts they give every
\* difference weekday - now.weekday() from -6 to 6.
Nows ==
    {[date |-> d, hour |-> 22, minute |-> 30, second |-> 15] : d \in {738956, 738958, 738962}}
    \cup {[date |-> 738960, hour |-> 8, minute |-> 0, second |-> 0]}

\* The clock before datetime.now() is read.
NoClock == [date |-> 0, hour |-> 0, minute |-> 0, second |-> 0]

\* parsed before _parse_natural_time has returned.
NotParsed == [kind |-> "None"]

\* What subprocess.run of the CLI does: return code 0, another return code,
\* TimeoutExpired, another exception.
CliOutcomes == {"ok", "nonzero", "timeout", "exception"}

(***************************************************************************)
(* State                                                                   *)
(***************************************************************************)

VARIABLES
    pc,           \* where the handler stands
    args,         \* context.args
    is_family,    \* schedule_command: is_family
    full_text,    \* schedule_command: full_text
    text,         \* _parse_natural_time: text
    now,          \* _parse_natural_time: now
    hour,         \* _parse_natural_time: hour
    minute,       \* _parse_natural_time: minute
    period,       \* _parse_natural_time: period
    target_date,  \* _parse_natural_time: target_date
    parsed,       \* what _parse_natural_time returned or raised
    reply,        \* the text of update.message.reply_text, None when none was sent
    cmd           \* the command lines handed to subprocess.run, in order

vars == <<pc, args, is_family, full_text, text, now, hour, minute, period, target_date,
          parsed, reply, cmd>>

locals == <<hour, minute, period, target_date>>

Init ==
    /\ pc = "idle"
    /\ args = <<>>
    /\ is_family = FALSE
    /\ full_text = ""
    /\ text = ""
    /\ now = NoClock
    /\ hour = NoHour
    /\ minute = 0
    /\ period = None
    /\ target_date = 0
    /\ parsed = NotParsed
    /\ reply = None
    /\ cmd = <<>>

(***************************************************************************)
(* schedule_command, up to the call of the parser                          *)
(***************************************************************************)

\* Lines 384-408: no arguments gives the usage text; otherwise the arguments
\* are joined and the --family flag is taken out.
ScheduleCommand(a) ==
    /\ pc = "idle"
    /\ args' = a
    /\ IF Len(a) = 0
       THEN /\ reply' = "Schedule Command"
            /\ pc' = "done"
            /\ UNCHANGED <<is_family, full_text>>
       ELSE \E joined \in {Join(a)} :
               \E lowered \in {Lower(joined)} :
                   /\ is_family' = Contains(lowered, "--family")
                   /\ full_text' = Let(Sub("family", joined), Strip)
                   /\ pc' = "parse"
                   /\ UNCHANGED reply
    /\ UNCHANGED <<text, now, locals, parsed, cmd>>

(***************************************************************************)
(* _parse_natural_time, one action per step of the function                *)
(***************************************************************************)

\* Lines 272-273 and 306.
ParseBegin(clock) ==
    /\ pc = "parse"
    /\ text' = Let(Lower(full_text), Strip)
    /\ now' = clock
    /\ hour' = NoHour
    /\ minute' = 0
    /\ period' = None
    /\ pc' = "in_hours"
    /\ UNCHANGED <<args, is_family, full_text, target_date, parsed, reply, cmd>>

\* Lines 297-303: the "in X hours" shortcut returns at once.
TryInHours ==
    /\ pc = "in_hours"
    /\ IF Search("in_hours", text).ok
       THEN \E result \in {InHoursResult(text, now)} :
               /\ parsed' = result
               /\ pc' = IF result.kind = "Raised" THEN "raised" ELSE "parsed"
       ELSE /\ pc' = "find_time"
            /\ UNCHANGED parsed
    /\ UNCHANGED <<args, is_family, full_text, text, now, locals, reply, cmd>>

\* Lines 305-329: find time in text.
FindTimeStep ==
    /\ pc = "find_time"
    /\ \E found \in {FindTime(text)} :
          /\ hour' = found.hour
          /\ minute' = found.minute
          /\ period' = found.period
          /\ IF found.hour = NoHour
             THEN parsed' = Failed(NoTimeMessage) /\ pc' = "parsed"
             ELSE pc' = "convert" /\ UNCHANGED parsed
    /\ UNCHANGED <<args, is_family, full_text, text, now, target_date, reply, cmd>>

\* Lines 331-335: convert to 24h.
ConvertStep ==
    /\ pc = "convert"
    /\ hour' = To24h(hour, period)
    /\ pc' = "find_day"
    /\ UNCHANGED <<args, is_family, full_text, text, now, minute, period, target_date,
                   parsed, reply, cmd>>

\* Lines 337-356: find day reference.
FindDayStep ==
    /\ pc = "find_day"
    /\ target_date' = TargetDate(text, now)
    /\ pc' = "build"
    /\ UNCHANGED <<args, is_family, full_text, text, now, hour, minute, period,
                   parsed, reply, cmd>>

\* Lines 358-373: build the target datetime, extract the title, return.
BuildStep ==
    /\ pc = "build"
    /\ parsed' = IF TimeError(hour, minute) # ""
                 THEN Failed("Invalid time: " \o TimeError(hour, minute))
                 ELSE Resolved(Combine(target_date, hour, minute), OrNone(ExtractTitle(text)))
    /\ pc' = "parsed"
    /\ UNCHANGED <<args, is_family, full_text, text, now, locals, reply, cmd>>

(***************************************************************************)
(* schedule_command, after the parser                                      *)
(***************************************************************************)

\* CheckParsed without lines 417-423: a missing title is not answered.
CheckParsedIgnoresTitle ==
    /\ pc = "parsed"
    /\ IF parsed.kind = "Failed"
       THEN reply' = parsed.reason /\ pc' = "done"
       ELSE pc' = "propose" /\ UNCHANGED reply
    /\ UNCHANGED <<args, is_family, full_text, text, now, locals, parsed, cmd>>

\* Lines 413-423: a parse failure or a missing title is answered and ends the
\* command.
CheckParsed ==
    /\ pc = "parsed"
    /\ IF parsed.kind = "Failed"
       THEN reply' = parsed.reason /\ pc' = "done"
       ELSE IF parsed.title = None
       THEN reply' = "Please include a title for the event." /\ pc' = "done"
       ELSE pc' = "propose" /\ UNCHANGED reply
    /\ UNCHANGED <<args, is_family, full_text, text, now, locals, parsed, cmd>>

\* Lines 425-486: the proposal is handed to the Cal.com CLI when the CLI
\* exists, and its outcome is answered.
Propose(cli_exists, outcome) ==
    /\ pc = "propose"
    /\ IF AddHoursOverflows(parsed.when, 1)
       THEN pc' = "raised" /\ UNCHANGED <<reply, cmd>>
       ELSE IF ~cli_exists
       THEN pc' = "done" /\ reply' = "Cal.com CLI not found" /\ UNCHANGED cmd
       ELSE /\ pc' = "done"
            /\ cmd' = Append(cmd, [title   |-> TitleCase(parsed.title),
                                    start   |-> IsoFormat(parsed.when),
                                    end     |-> IsoFormat(AddHours(parsed.when, 1)),
                                    context |-> IF is_family THEN "family" ELSE "personal"])
            /\ reply' = CASE outcome = "ok"        -> "Event Proposed"
                          [] outcome = "nonzero"   -> "Failed to create proposal"
                          [] outcome = "timeout"   -> "Cal.com request timed out"
                          [] outcome = "exception" -> "Error"
    /\ UNCHANGED <<args, is_family, full_text, text, now, locals, parsed>>

Next ==
    \/ \E a \in ArgLists : ScheduleCommand(a)
    \/ \E clock \in Nows : ParseBegin(clock)
    \/ TryInHours
    \/ FindTimeStep
    \/ ConvertStep
    \/ FindDayStep
    \/ BuildStep
    \/ CheckParsed
    \/ \E cli_exists \in BOOLEAN, outcome \in CliOutcomes : Propose(cli_exists, outcome)

Spec == Init /\ [][Next]_vars

TypeOK ==
    /\ pc \in {"idle", "parse", "in_hours", "find_time", "convert", "find_day", "build",
               "parsed", "raised", "propose", "done"}
    /\ is_family \in BOOLEAN
    /\ hour \in -1..111
    /\ minute \in 0..99

(***************************************************************************)
(* Properties                                                              *)
(***************************************************************************)

\* _parse_natural_time has just returned a value.  The value stays in parsed,
\* unchanged, for the rest of the command, so a property of it is stated for
\* this state.
ParseReturned == pc = "parsed" /\ parsed.kind \in {"Resolved", "Failed"}

\* The time-of-day path was taken and found a time: only FindTimeStep sets hour.
TimeFound == hour # NoHour

\* The value just returned is a timestamp built by the time-of-day path.
ResolvedByTimeOfDay == ParseReturned /\ parsed.kind = "Resolved" /\ TimeFound

\* The weekday (0 = Monday) named in t that comes first in Monday-to-Sunday
\* order, -1 when t names none.
NamedWeekday(t) ==
    LET K == {k \in 1..Len(day_map) : Contains(t, day_map[k])}
    IN  IF K = {} THEN -1 ELSE (CHOOSE k \in K : \A l \in K : k <= l) - 1

NoTomorrowToday == ~Contains(text, "tomorrow") /\ ~Contains(text, "today")

\* The whitespace-separated words of t.
RECURSIVE WordsFrom(_, _)
WordsFrom(t, from) ==
    Let(SkipChars(t, {" "}, from), LAMBDA first :
        IF first > Len(t) THEN <<>>
        ELSE Let(Min({i \in first..Len(t) : Char(t, i + 1) \in {" ", ""}}), LAMBDA last :
                 <<SubSeq(t, first, last)>> \o WordsFrom(t, last + 1)))

Words(t) == WordsFrom(t, 1)

HasDigit(w) == \E i \in 1..Len(w) : IsDigit(Char(w, i))

EndsWith(w, suffix) ==
    Len(w) >= Len(suffix) /\ SubSeq(w, Len(w) - Len(suffix) + 1, Len(w)) = suffix

\* Word i of ws is a bare hour: one or two digits, no colon, no am or pm after
\* it, and no other word of ws holds a digit.
BareHourAt(ws, i) ==
    /\ Len(ws[i]) \in 1..2
    /\ DigitRun(ws[i], 1) = Len(ws[i])
    /\ i < Len(ws) => ~StartsWith(ws[i + 1], 1, "am") /\ ~StartsWith(ws[i + 1], 1, "pm")
    /\ \A j \in 1..Len(ws) : j # i => ~HasDigit(ws[j])

\* Word i of ws is the number of an "in N hours" phrase.
InHoursAround(ws, i) ==
    i > 1 /\ i < Len(ws) /\ EndsWith(ws[i - 1], "in") /\ StartsWith(ws[i + 1], 1, "hour")

\* "at" and whitespace stand directly before word i of ws.
AfterAt(ws, i) == i > 1 /\ EndsWith(ws[i - 1], "at")

\* C1: every text with an "in N hours" phrase resolves to now + N hours
\* exactly, with the text minus the phrase (trimmed, None if empty) as title,
\* whatever else the text contains.
C1_InHoursAlwaysResolves ==
    (parsed.kind # "None" /\ Search("in_hours", text).ok) =>
        LET N == ParseInt(Search("in_hours", text).groups[1])
        IN  /\ parsed.kind = "Resolved"
            /\ parsed.when = [date   |-> now.date + ((now.hour + N) \div 24),
                              hour   |-> (now.hour + N) % 24,
                              minute |-> now.minute,
                              second |-> now.second]
            /\ parsed.title = OrNone(Let(Sub("in_hours", text), Strip))

\* C2 as claimed: a text that names the reference weekday, has a recognised
\* time and no "tomorrow", "today" or "next" resolves to the reference date
\* plus 7 days.
C2_SameWeekdayRollsForward ==
    (ResolvedByTimeOfDay /\ NoTomorrowToday /\ ~Contains(text, "next")
        /\ NamedWeekday(text) = Weekday(now.date))
    => parsed.when.date = now.date + 7

\* C2 as amended: when the weekday that decides the date (the first in
\* Monday-to-Sunday order among those named) is the reference weekday, and the
\* text has no "tomorrow", "today" or "next", the resolved date is the
\* reference date itself.
C2_SameWeekdayStaysToday ==
    (ResolvedByTimeOfDay /\ NoTomorrowToday /\ ~Contains(text, "next")
        /\ NamedWeekday(text) = Weekday(now.date))
    => parsed.when.date = now.date

C2_Witness ==
    /\ ResolvedByTimeOfDay /\ NoTomorrowToday /\ ~Contains(text, "next")
    /\ NamedWeekday(text) = 4 /\ Weekday(now.date) = 4 /\ now.hour = 8
    /\ parsed.when.hour = 10

\* C3 as claimed: "next" plus a weekday name and a recognised time resolves to
\* a date at least 7 days after the reference date.
C3_NextAtLeastSevenDays ==
    (ResolvedByTimeOfDay /\ NoTomorrowToday /\ Contains(text, "next")
        /\ NamedWeekday(text) >= 0)
    => parsed.when.date >= now.date + 7

\* C3 as amended: "next" plus a weekday name and a recognised time resolves to
\* the first date after the reference date that falls on the named weekday:
\* 1 to 7 days ahead, 7 exactly when the named weekday is the reference weekday.
C3_NextIsFollowingOccurrence ==
    (ResolvedByTimeOfDay /\ NoTomorrowToday /\ Contains(text, "next")
        /\ NamedWeekday(text) >= 0)
    => /\ parsed.when.date - now.date \in 1..7
       /\ Weekday(parsed.when.date) = NamedWeekday(text)
       /\ (parsed.when.date = now.date + 7) <=> (NamedWeekday(text) = Weekday(now.date))

C3_Witness ==
    /\ ResolvedByTimeOfDay /\ NoTomorrowToday /\ Contains(text, "next")
    /\ NamedWeekday(text) > Weekday(now.date)
    /\ parsed.when.date < now.date + 7

\* C4: when the named weekday lies earlier in the week than the reference
\* weekday, the resolved date is reference date + (weekday - now.weekday() + 7),
\* 1 to 6 days ahead and on the named weekday, with or without "next".
C4_PastWeekdayAddsSevenOnce ==
    (ResolvedByTimeOfDay /\ NoTomorrowToday
        /\ NamedWeekday(text) >= 0 /\ NamedWeekday(text) < Weekday(now.date))
    => /\ parsed.when.date = now.date + (NamedWeekday(text) - Weekday(now.date) + 7)
       /\ parsed.when.date - now.date \in 1..6
       /\ Weekday(parsed.when.date) = NamedWeekday(text)

C4_Witness ==
    /\ ResolvedByTimeOfDay /\ NoTomorrowToday /\ Contains(text, "next")
    /\ NamedWeekday(text) = 0 /\ Weekday(now.date) = 2
    /\ parsed.when.date = now.date + 5

\* C5: the date follows a strict priority over the whole text: "tomorrow"
\* gives the reference date + 1 whatever else is named; otherwise "today"
\* gives the reference date; otherwise a weekday name decides; with no day
\* keyword the date is the reference date.
C5_DatePriority ==
    ResolvedByTimeOfDay =>
        /\ Contains(text, "tomorrow") => parsed.when.date = now.date + 1
        /\ (~Contains(text, "tomorrow") /\ Contains(text, "today"))
                => parsed.when.date = now.date
        /\ (NoTomorrowToday /\ NamedWeekday(text) >= 0)
                => /\ Weekday(parsed.when.date) = NamedWeekday(text)
                   /\ parsed.when.date - now.date \in 0..7
        /\ (NoTomorrowToday /\ NamedWeekday(text) = -1) => parsed.when.date = now.date

C5_Witness ==
    /\ ResolvedByTimeOfDay
    /\ Contains(text, "tomorrow") /\ Contains(text, "today")
    /\ parsed.when.date = now.date + 1

\* C6: parse fails with the no-time-found reason exactly when the text has no
\* "in N hours" phrase and none of the three time-of-day patterns matches,
\* whatever day keywords it contains.
C6_NoTimeFound ==
    (pc \in {"parsed", "raised"} /\ parsed.kind # "None") =>
        ((parsed = Failed(NoTimeMessage))
            <=> (/\ ~Search("in_hours", text).ok
                 /\ \A k \in 1..Len(time_patterns) : ~Search(time_patterns[k], text).ok))

C6_Witness ==
    /\ parsed = Failed(NoTimeMessage)
    /\ NamedWeekday(text) >= 0
    /\ HasDigit(text)

\* C7: the conversion to 24h turns hour h into h + 12 for pm with h < 12, into
\* 0 for am with h = 12, and leaves it unchanged in every other case.
C7_Normalization ==
    [][pc = "convert" =>
         /\ (period = "pm" /\ hour < 12) => hour' = hour + 12
         /\ (period = "am" /\ hour = 12) => hour' = 0
         /\ (period = "pm" /\ hour >= 12) => hour' = hour
         /\ (period = "am" /\ hour # 12) => hour' = hour
         /\ period = None => hour' = hour]_vars

C7_Witness ==
    /\ pc = "find_day" /\ period = None /\ hour = 3

\* C8 as claimed: a bare hour with no meridiem and no colon ("15", "3") is
\* accepted and resolves to that hour at minute 0.
C8_BareHourAccepted ==
    ParseReturned =>
        \A ws \in {Words(text)} : \A i \in 1..Len(ws) :
            (BareHourAt(ws, i) /\ ~InHoursAround(ws, i) /\ ParseInt(ws[i]) <= 23)
            => /\ parsed.kind = "Resolved"
               /\ parsed.when.hour = ParseInt(ws[i])
               /\ parsed.when.minute = 0

\* C8 as amended: a bare hour with no meridiem and no colon is recognised only
\* directly after "at" and whitespace, and then resolves to that hour at
\* minute 0 when the hour is at most 23 and fails as an invalid time
\* otherwise; without "at" the parse fails with the no-time-found reason.
C8_BareHourNeedsAt ==
    ParseReturned =>
        \A ws \in {Words(text)} : \A i \in 1..Len(ws) :
            (BareHourAt(ws, i) /\ ~InHoursAround(ws, i))
            => IF AfterAt(ws, i)
               THEN IF ParseInt(ws[i]) <= 23
                    THEN /\ parsed.kind = "Resolved"
                         /\ parsed.when.hour = ParseInt(ws[i])
                         /\ parsed.when.minute = 0
                    ELSE parsed = Failed("Invalid time: hour must be in 0..23")
               ELSE parsed = Failed(NoTimeMessage)

C8_Witness ==
    /\ parsed = Failed(NoTimeMessage)
    /\ \E ws \in {Words(text)} : \E i \in 1..Len(ws) :
          /\ BareHourAt(ws, i) /\ ~AfterAt(ws, i)
          /\ ws[i] = "15"

\* C9: parse ends with Resolved or Failed for every text and never raises; an
\* hour outside 0..23 or a minute outside 0..59 gives Failed with a reason
\* starting "Invalid time: ".
C9_NeverRaises ==
    /\ parsed.kind # "Raised"
    /\ pc # "raised"
    /\ (parsed.kind # "None" /\ TimeFound /\ (hour \notin 0..23 \/ minute \notin 0..59))
        => /\ parsed.kind = "Failed"
           /\ StartsWith(parsed.reason, 1, "Invalid time: ")

\* C10: a timestamp built by the time-of-day path has the normalized hour, in
\* 0..23, the extracted minute, in 0..59, and a date from the reference date
\* to 7 days after it.
C10_ResolvedInRange ==
    ResolvedByTimeOfDay =>
        /\ parsed.when.hour = hour /\ hour \in 0..23
        /\ parsed.when.minute = minute /\ minute \in 0..59
        /\ parsed.when.date - now.date \in 0..7

C10_Witness ==
    /\ ResolvedByTimeOfDay
    /\ parsed.when.date = now.date + 7
    /\ parsed.when.hour = 15 /\ parsed.when.minute = 30

\* C11: a recognised, valid time with nothing left for the title gives
\* Resolved with an absent title, not Failed; schedule_command then answers
\* "Please include a title for the event." and never hands a proposal to the
\* Cal.com CLI, and it never does so after Failed either.
C11_NoTitleNoProposal ==
    /\ (ParseReturned /\ TimeFound /\ hour \in 0..23 /\ minute \in 0..59)
        => \E leftover \in {ExtractTitle(text)} :
              leftover = "" => parsed.kind = "Resolved" /\ parsed.title = None
    /\ (parsed.kind = "Resolved" /\ parsed.title = None)
        => /\ cmd = <<>>
           /\ pc \in {"parsed", "done"}
           /\ pc = "done" => reply = "Please include a title for the event."
    /\ parsed.kind = "Failed"
        => /\ cmd = <<>>
           /\ pc \in {"parsed", "done"}
           /\ pc = "done" => reply = parsed.reason

C11_Witness ==
    /\ pc = "done"
    /\ parsed.kind = "Resolved" /\ TimeFound /\ parsed.title = None
    /\ Contains(text, "tomorrow") /\ parsed.when.hour = 14
    /\ reply = "Please include a title for the event."
    /\ cmd = <<>>

\* C12: whenever parse returns Resolved with a title, parsing that title alone
\* returns Failed with the no-time-found reason.
C12_TitleNeverParses ==
    (parsed.kind = "Resolved" /\ parsed.title # None)
    => \E again \in {ParseNaturalTime(parsed.title, now)} : again = Failed(NoTimeMessage)

\* The matches of the three time patterns in t, in pattern order.
TimeMatches(t) == [k \in 1..Len(time_patterns) |-> Search(time_patterns[k], t)]

\* C13: the time of day comes from the first pattern, in the order "at" form,
\* HH:MM form, bare hour with am/pm, that matches anywhere in the text, also
\* when a later pattern matches at an earlier position, and no later pattern
\* changes it.
C13_PatternOrderWins ==
    pc = "convert" =>
        \E found \in {TimeMatches(text)} :
            \A k \in 1..Len(time_patterns) :
                (found[k].ok /\ \A j \in 1..(k - 1) : ~found[j].ok)
                => /\ hour = ParseInt(found[k].groups[1])
                   /\ minute = IF k < 3 /\ found[k].groups[2] # ""
                               THEN ParseInt(found[k].groups[2]) ELSE 0
                   /\ period = Let(found[k].groups[Len(found[k].groups)],
                                   LAMBDA meridiem : IF meridiem = "" THEN None ELSE meridiem)

C13_Witness ==
    /\ pc = "convert"
    /\ \E found \in {TimeMatches(text)} :
          /\ found[1].ok /\ found[3].ok
          /\ found[3].start < found[1].start
          /\ found[3].groups = <<"3", "pm">>
    /\ hour = 5 /\ minute = 0 /\ period = None

\* The characters trimmed from both ends of the title.
TitleTrim == {" ", ",", "-", ":"}

\* C14: the title returned by the time-of-day path is the lower-cased text
\* with every day keyword (and a "next" before it), then every "at" time
\* phrase, then every HH:MM phrase, then every bare hour with am/pm removed,
\* whichever pattern gave the time, and spaces, commas, hyphens and colons
\* trimmed from both ends; it is absent when nothing is left.
C14_TitleIsLeftover ==
    ResolvedByTimeOfDay =>
        \E leftover \in {StripChars(Sub("meridiem",
                              Sub("colon", Sub("at_phrase", Sub("day_word", text)))),
                          TitleTrim)} :
            /\ parsed.title = IF leftover = "" THEN None ELSE leftover
            /\ leftover = Lower(leftover)
            /\ Char(leftover, 1) \notin TitleTrim
            /\ Char(leftover, Len(leftover)) \notin TitleTrim
            /\ text \in {"next monday 3pm at 5 meeting", "9am 14:00 meeting",
                          "tomorrow at 12:30 am meeting", "friday 10am -,: meeting"}
               => leftover = "meeting"

C14_Witness ==
    /\ ResolvedByTimeOfDay
    /\ text = "next monday 3pm at 5 meeting"
    /\ parsed.title = "meeting"

\* The trim of line 371 acts: punctuation left at the front of the title is
\* removed.
C14_WitnessTrim ==
    /\ ResolvedByTimeOfDay
    /\ text = "friday 10am -,: meeting"
    /\ parsed.title = "meeting"

\* The weekdays (0 = Monday) that t names.
NamedWeekdays(t) == {k - 1 : k \in {l \in 1..Len(day_map) : Contains(t, day_map[l])}}

\* C15: when the text names several weekdays and neither "tomorrow" nor
\* "today", the resolved date falls on the named weekday that comes first in
\* Monday-to-Sunday order, in whatever order the text names them, at the
\* offset that this weekday alone would get.
C15_FirstTableWeekdayDecides ==
    (ResolvedByTimeOfDay /\ NoTomorrowToday) =>
        \E named \in {NamedWeekdays(text)} :
            Cardinality(named) >= 2 =>
                \E decides \in {Min(named)} :
                    /\ Weekday(parsed.when.date) = decides
                    /\ parsed.when.date - now.date \in 0..7
                    /\ parsed.when.date - now.date = 7
                       <=> (decides = Weekday(now.date) /\ Contains(text, "next"))

\* "friday monday" read on a Wednesday: Monday decides although Friday is
\* named first and comes sooner.
C15_Witness ==
    /\ ResolvedByTimeOfDay /\ NoTomorrowToday
    /\ NamedWeekdays(text) = {0, 4}
    /\ StartsWith(text, 1, "friday")
    /\ Weekday(now.date) = 2
    /\ parsed.when.date = now.date + 5

====
